---- MODULE Spec2Model ----
(***************************************************************************)
(* Model of generators/base.py: the colour conversion helpers and the      *)
(* Figma node -> dataclass parsers, together with the constants that       *)
(* tests/test_generators.py pins.                                          *)
(*                                                                         *)
(* Representation.                                                         *)
(*  - A Python str that the code slices, strips, splits or rewrites is a   *)
(*    sequence of one-character strings.                                   *)
(*  - A Python dict is a function whose DOMAIN is the set of keys present; *)
(*    d.get(k, default) is Get(d, k, default).                             *)
(*  - None is the record None; a dataclass instance is a record.           *)
(*  - A float (opacity, alpha, colour channel, position) is the integer    *)
(*    number of hundredths, so 1.0 is 100.                                 *)
(*  - A Python list that the parsers hand on without copying is a heap     *)
(*    address (a record [ref |-> a]); variable heap holds its contents.    *)
(***************************************************************************)
EXTENDS Integers, Sequences, FiniteSets, TLC

VARIABLES node, rgba, text, heap, calls

vars == <<node, rgba, text, heap, calls>>

----------------------------------------------------------------------------
(* Constants (base.py:19-21)                                               *)

MAX_CHILDREN_LIMIT == 20
MAX_NATIVE_CHILDREN_LIMIT == 10
MAX_DEPTH == 8

----------------------------------------------------------------------------
(* Python values                                                           *)

None == [none |-> TRUE]

EmptyDict == [k \in {} |-> 0]

Get(d, k, default) == IF k \in DOMAIN d THEN d[k] ELSE default

----------------------------------------------------------------------------
(* Python str operations, on sequences of characters                       *)

WhiteSpace == {" "}

RECURSIVE LStrip(_, _)
LStrip(s, chars) ==
    IF s # <<>> /\ Head(s) \in chars THEN LStrip(Tail(s), chars) ELSE s

RECURSIVE RStrip(_, _)
RStrip(s, chars) ==
    IF s # <<>> /\ s[Len(s)] \in chars
    THEN RStrip(SubSeq(s, 1, Len(s) - 1), chars)
    ELSE s

Strip(s) == RStrip(LStrip(s, WhiteSpace), WhiteSpace)

StartsWith(s, p) == Len(s) >= Len(p) /\ SubSeq(s, 1, Len(p)) = p

\* p in s
Contains(s, p) ==
    \E i \in 1..(Len(s) - Len(p) + 1) : SubSeq(s, i, i + Len(p) - 1) = p

\* s.replace(old, new): every non-overlapping occurrence, left to right
RECURSIVE Replace(_, _, _)
Replace(s, old, new) ==
    IF s = <<>> THEN <<>>
    ELSE IF StartsWith(s, old)
         THEN new \o Replace(SubSeq(s, Len(old) + 1, Len(s)), old, new)
         ELSE <<Head(s)>> \o Replace(Tail(s), old, new)

\* s.split(sep) for a one-character separator: always at least one part
RECURSIVE Split(_, _)
Split(s, sep) ==
    IF \A i \in 1..Len(s) : s[i] # sep THEN <<s>>
    ELSE LET i == CHOOSE j \in 1..Len(s) :
                      s[j] = sep /\ \A k \in 1..(j - 1) : s[k] # sep
         IN  <<SubSeq(s, 1, i - 1)>> \o Split(SubSeq(s, i + 1, Len(s)), sep)

\* ''.join(c * 2 for c in s)
RECURSIVE DoubleEach(_)
DoubleEach(s) ==
    IF s = <<>> THEN <<>> ELSE <<Head(s), Head(s)>> \o DoubleEach(Tail(s))

LowerDigits == <<"0", "1", "2", "3", "4", "5", "6", "7", "8", "9",
                 "a", "b", "c", "d", "e", "f">>

UpperDigits == <<"0", "1", "2", "3", "4", "5", "6", "7", "8", "9",
                 "A", "B", "C", "D", "E", "F">>

IsDigit(c, base) ==
    \E i \in 1..base : LowerDigits[i] = c \/ UpperDigits[i] = c

DigitVal(c) ==
    (CHOOSE i \in 1..16 : LowerDigits[i] = c \/ UpperDigits[i] = c) - 1

RECURSIVE DigitsVal(_, _)
DigitsVal(s, base) ==
    IF s = <<>> THEN 0
    ELSE DigitsVal(SubSeq(s, 1, Len(s) - 1), base) * base + DigitVal(s[Len(s)])

\* int(s, base): surrounding whitespace is ignored, one sign is allowed, and
\* what remains must be a non-empty run of digits of the base; anything else
\* raises ValueError.  (The alphabet of the model has no "_" and no "x", so
\* digit grouping and the 0x prefix are not modelled.)
IntBody(s) == IF s # <<>> /\ Head(s) \in {"+", "-"} THEN Tail(s) ELSE s

IntParses(s, base) ==
    LET b == IntBody(Strip(s))
    IN  b # <<>> /\ \A i \in 1..Len(b) : IsDigit(b[i], base)

IntValue(s, base) ==
    LET t == Strip(s)
        v == DigitsVal(IntBody(t), base)
    IN  IF t # <<>> /\ Head(t) = "-" THEN 0 - v ELSE v

\* format(n, "02x")
Hex2(n) == <<LowerDigits[(n \div 16) + 1], LowerDigits[(n % 16) + 1]>>

\* str(n) for n >= 0
RECURSIVE Dec(_)
Dec(n) ==
    IF n < 10 THEN <<LowerDigits[n + 1]>>
    ELSE Dec(n \div 10) \o <<LowerDigits[(n % 10) + 1]>>

\* format(a, ".2f") for 0 <= a < 10, a in hundredths
Fixed2(a) ==
    Dec(a \div 100) \o <<".">> \o
    <<LowerDigits[((a \div 10) % 10) + 1], LowerDigits[(a % 10) + 1]>>

----------------------------------------------------------------------------
(* Colour conversion helpers (base.py:218-240)                             *)

\* rgba_to_hex after the channels have been scaled: c is the record of the
\* integers int(color[k] * 255) and of the alpha (absent -> 1), in hundredths.
rgba_to_hex(c) ==
    LET r == Get(c, "r", 0)
        g == Get(c, "g", 0)
        b == Get(c, "b", 0)
        a == Get(c, "a", 100)
    IN  IF a < 100
        THEN <<"r", "g", "b", "a", "(">> \o Dec(r) \o <<",", " ">> \o Dec(g)
             \o <<",", " ">> \o Dec(b) \o <<",", " ">> \o Fixed2(a) \o <<")">>
        ELSE <<"#">> \o Hex2(r) \o Hex2(g) \o Hex2(b)

Returns(v) == [kind |-> "return", val |-> v]

Raises(e) == [kind |-> "raise", exc |-> e]

\* the rgba branch: parts[0], parts[1], parts[2] in evaluation order
rgba_branch(s) ==
    LET parts == Split(Replace(Replace(s, <<"r", "g", "b", "a", "(">>, <<>>),
                               <<")">>, <<>>), ",")
    IN  IF ~IntParses(parts[1], 10) THEN Raises("ValueError")
        ELSE IF Len(parts) < 2 THEN Raises("IndexError")
        ELSE IF ~IntParses(parts[2], 10) THEN Raises("ValueError")
        ELSE IF Len(parts) < 3 THEN Raises("IndexError")
        ELSE IF ~IntParses(parts[3], 10) THEN Raises("ValueError")
        ELSE Returns(<<IntValue(parts[1], 10), IntValue(parts[2], 10),
                       IntValue(parts[3], 10)>>)

hex_branch_overlapping_slices(h) ==
    IF Len(h) >= 6
    THEN IF /\ IntParses(SubSeq(h, 1, 2), 16)
            /\ IntParses(SubSeq(h, 3, 4), 16)
            /\ IntParses(SubSeq(h, 4, 5), 16)
         THEN Returns(<<IntValue(SubSeq(h, 1, 2), 16),
                        IntValue(SubSeq(h, 3, 4), 16),
                        IntValue(SubSeq(h, 4, 5), 16)>>)
         ELSE Raises("ValueError")
    ELSE Returns(<<0, 0, 0>>)

\* the slices hex_color[0:2], [2:4], [4:6] read in base 16, or (0, 0, 0)
hex_branch(h) ==
    IF Len(h) >= 6
    THEN IF \A i \in 0..2 : IntParses(SubSeq(h, 2 * i + 1, 2 * i + 2), 16)
         THEN Returns(<<IntValue(SubSeq(h, 1, 2), 16),
                        IntValue(SubSeq(h, 3, 4), 16),
                        IntValue(SubSeq(h, 5, 6), 16)>>)
         ELSE Raises("ValueError")
    ELSE Returns(<<0, 0, 0>>)

hex_to_rgb(hex_color) ==
    LET s == Strip(hex_color)
    IN  IF StartsWith(s, <<"r", "g", "b", "a">>)
        THEN rgba_branch(s)
        ELSE LET h == LStrip(s, {"#"})
             IN  hex_branch(IF Len(h) = 3 THEN DoubleEach(h) ELSE h)

----------------------------------------------------------------------------
(* Type tags that the parsers test or rewrite                              *)

SOLID == <<"S", "O", "L", "I", "D">>

IMAGE == <<"I", "M", "A", "G", "E">>

GRADIENT == <<"G", "R", "A", "D", "I", "E", "N", "T">>

GRADIENT_ == GRADIENT \o <<"_">>

LINEAR == <<"L", "I", "N", "E", "A", "R">>

RADIAL == <<"R", "A", "D", "I", "A", "L">>

ANGULAR == <<"A", "N", "G", "U", "L", "A", "R">>

DIAMOND == <<"D", "I", "A", "M", "O", "N", "D">>

GradientTypes == {GRADIENT_ \o t : t \in {LINEAR, RADIAL, ANGULAR, DIAMOND}}

----------------------------------------------------------------------------
(* Data structures (base.py:50-211)                                        *)

ColorValue(r, g, b, a) == [r |-> r, g |-> g, b |-> b, a |-> a]

from_figma(color, opacity) ==
    ColorValue(Get(color, "r", 0), Get(color, "g", 0), Get(color, "b", 0),
               IF opacity < 100 THEN opacity ELSE Get(color, "a", 100))

GradientStop(color, position) == [color |-> color, position |-> position]

GradientDef(type, stops, handle_positions, opacity) ==
    [type |-> type, stops |-> stops, handle_positions |-> handle_positions,
     opacity |-> opacity]

FillLayer(type, visible, opacity) ==
    [type |-> type, color |-> None, gradient |-> None, image_ref |-> None,
     scale_mode |-> "FILL", opacity |-> opacity, visible |-> visible]

StrokeInfo(weight, colors, align, cap, join, dashes, individual_weights) ==
    [weight |-> weight, colors |-> colors, align |-> align, cap |-> cap,
     join |-> join, dashes |-> dashes,
     individual_weights |-> individual_weights]

CornerRadii(tl, tr, br, bl) ==
    [top_left |-> tl, top_right |-> tr, bottom_right |-> br,
     bottom_left |-> bl]

ShadowEffect(type, color, offset_x, offset_y, radius, spread) ==
    [type |-> type, color |-> color, offset_x |-> offset_x,
     offset_y |-> offset_y, radius |-> radius, spread |-> spread]

BlurEffect(type, radius) == [type |-> type, radius |-> radius]

----------------------------------------------------------------------------
(* Lists that are handed on: heap addresses                                *)
(*                                                                         *)
(* A list literal evaluated by a call ("[]" as the default of .get) is a   *)
(* new object: the call with allocation base b gives it the address        *)
(* b + offset, the offset naming the place in the code that evaluated it:  *)
(* 3 * i for entry i of fills, 3 * i + 1 for entry i of strokes, 2 for     *)
(* strokeDashes.  The lists of the input node are at base 0.               *)

Ref(a) == [ref |-> a]

----------------------------------------------------------------------------
(* Node parsers (base.py:247-457)                                          *)

\* the loop over gradientStops (base.py:263-269, repeated at 302-308 and
\* 408-414)
gradient_stops(fill) ==
    LET ss == Get(fill, "gradientStops", <<>>)
    IN  [i \in 1..Len(ss) |->
            LET c == Get(ss[i], "color", EmptyDict)
            IN  GradientStop(ColorValue(Get(c, "r", 0), Get(c, "g", 0),
                                        Get(c, "b", 0), Get(c, "a", 100)),
                             Get(ss[i], "position", 0))]

gradient_type_kept(fill_type) == fill_type

\* fill_type.replace('GRADIENT_', '')
gradient_type(fill_type) == Replace(fill_type, GRADIENT_, <<>>)

\* the GradientDef built from a fill or stroke entry; fresh is the address
\* of the list the default "[]" of gradientHandlePositions creates
gradient_def(fill, type, fresh) ==
    GradientDef(gradient_type(type), gradient_stops(fill),
                Get(fill, "gradientHandlePositions", Ref(fresh)),
                Get(fill, "opacity", 100))

fill_skipped_never(fill) == FALSE

\* visible = fill.get('visible', True); if not visible: continue
fill_skipped(fill) == ~Get(fill, "visible", TRUE)

\* the body of the loop of parse_fills for an entry that is not skipped
fill_layer(fill, fresh) ==
    LET fill_type == Get(fill, "type", <<>>)
        layer == FillLayer(fill_type, Get(fill, "visible", TRUE),
                           Get(fill, "opacity", 100))
    IN  IF fill_type = SOLID
        THEN [layer EXCEPT !.color = from_figma(Get(fill, "color", EmptyDict),
                                                Get(fill, "opacity", 100))]
        ELSE IF Contains(fill_type, GRADIENT)
        THEN [layer EXCEPT !.gradient = gradient_def(fill, fill_type, fresh)]
        ELSE IF fill_type = IMAGE
        THEN [layer EXCEPT !.image_ref = Get(fill, "imageRef", ""),
                           !.scale_mode = Get(fill, "scaleMode", "FILL")]
        ELSE layer

RECURSIVE fills_loop(_, _, _)
fills_loop(fills, i, base) ==
    IF i > Len(fills) THEN <<>>
    ELSE IF fill_skipped(fills[i]) THEN fills_loop(fills, i + 1, base)
    ELSE <<fill_layer(fills[i], base + 3 * i)>> \o fills_loop(fills, i + 1, base)

parse_fills(n, base) == fills_loop(Get(n, "fills", <<>>), 1, base)

\* the body of the loop of parse_stroke for an entry that is not skipped
stroke_layer(s, fresh) ==
    LET s_type == Get(s, "type", <<>>)
        layer == FillLayer(s_type, TRUE, Get(s, "opacity", 100))
    IN  IF s_type = SOLID
        THEN [layer EXCEPT !.color = from_figma(Get(s, "color", EmptyDict),
                                                Get(s, "opacity", 100))]
        ELSE IF Contains(s_type, GRADIENT)
        THEN [layer EXCEPT !.gradient = gradient_def(s, s_type, fresh)]
        ELSE layer

RECURSIVE strokes_loop(_, _, _)
strokes_loop(strokes, i, base) ==
    IF i > Len(strokes) THEN <<>>
    ELSE IF ~Get(strokes[i], "visible", TRUE)
    THEN strokes_loop(strokes, i + 1, base)
    ELSE <<stroke_layer(strokes[i], base + 3 * i + 1)>>
         \o strokes_loop(strokes, i + 1, base)

stroke_absent_no_weight_test(strokes, weight) == strokes = <<>>

\* if not strokes or weight == 0: return None
stroke_absent(strokes, weight) == strokes = <<>> \/ weight = 0

\* iw = node.get('individualStrokeWeights'); if iw: ...
individual_weights(n) ==
    LET iw == Get(n, "individualStrokeWeights", EmptyDict)
    IN  IF DOMAIN iw # {}
        THEN [top |-> Get(iw, "top", 0), right |-> Get(iw, "right", 0),
              bottom |-> Get(iw, "bottom", 0), left |-> Get(iw, "left", 0)]
        ELSE None

parse_stroke(n, base) ==
    LET strokes == Get(n, "strokes", <<>>)
        weight == Get(n, "strokeWeight", 0)
        colors == strokes_loop(strokes, 1, base)
    IN  IF stroke_absent(strokes, weight) THEN None
        ELSE IF colors = <<>> THEN None
        ELSE StrokeInfo(weight, colors,
                        Get(n, "strokeAlign", "INSIDE"),
                        Get(n, "strokeCap", "NONE"),
                        Get(n, "strokeJoin", "MITER"),
                        Get(n, "strokeDashes", Ref(base + 2)),
                        individual_weights(n))

parse_corners_radius_first(n) ==
    LET radii == Get(n, "rectangleCornerRadii", <<>>)
        cr == Get(n, "cornerRadius", 0)
    IN  IF cr > 0 THEN CornerRadii(cr, cr, cr, cr)
        ELSE IF radii # <<>> /\ Len(radii) = 4
        THEN CornerRadii(radii[1], radii[2], radii[3], radii[4])
        ELSE None

\* radii is None when the key is absent, and None is as false as []
parse_corners(n) ==
    LET radii == Get(n, "rectangleCornerRadii", <<>>)
        cr == Get(n, "cornerRadius", 0)
    IN  IF radii # <<>> /\ Len(radii) = 4
        THEN CornerRadii(radii[1], radii[2], radii[3], radii[4])
        ELSE IF cr > 0 THEN CornerRadii(cr, cr, cr, cr)
        ELSE None

RECURSIVE shadows_loop(_, _)
shadows_loop(effects, i) ==
    IF i > Len(effects) THEN <<>>
    ELSE LET e == effects[i]
             color == Get(e, "color", EmptyDict)
             offset == Get(e, "offset", [x |-> 0, y |-> 0])
         IN  IF Get(e, "visible", TRUE)
                /\ Get(e, "type", "") \in {"DROP_SHADOW", "INNER_SHADOW"}
             THEN <<ShadowEffect(Get(e, "type", ""),
                                 ColorValue(Get(color, "r", 0),
                                            Get(color, "g", 0),
                                            Get(color, "b", 0),
                                            Get(color, "a", 25)),
                                 Get(offset, "x", 0), Get(offset, "y", 0),
                                 Get(e, "radius", 0), Get(e, "spread", 0))>>
                  \o shadows_loop(effects, i + 1)
             ELSE shadows_loop(effects, i + 1)

RECURSIVE blurs_loop(_, _)
blurs_loop(effects, i) ==
    IF i > Len(effects) THEN <<>>
    ELSE LET e == effects[i]
         IN  IF Get(e, "visible", TRUE)
                /\ Get(e, "type", "") \in {"LAYER_BLUR", "BACKGROUND_BLUR"}
             THEN <<BlurEffect(Get(e, "type", ""), Get(e, "radius", 0))>>
                  \o blurs_loop(effects, i + 1)
             ELSE blurs_loop(effects, i + 1)

\* one loop in the code, appending to shadows or to blurs
parse_effects(n) ==
    LET effects == Get(n, "effects", <<>>)
    IN  <<shadows_loop(effects, 1), blurs_loop(effects, 1)>>

LayoutInfo(n, mode) ==
    [mode |-> mode,
     gap |-> Get(n, "itemSpacing", 0),
     padding_top |-> Get(n, "paddingTop", 0),
     padding_right |-> Get(n, "paddingRight", 0),
     padding_bottom |-> Get(n, "paddingBottom", 0),
     padding_left |-> Get(n, "paddingLeft", 0),
     primary_align |-> Get(n, "primaryAxisAlignItems", "MIN"),
     counter_align |-> Get(n, "counterAxisAlignItems", "MIN"),
     primary_sizing |-> Get(n, "primaryAxisSizingMode", "AUTO"),
     counter_sizing |-> Get(n, "counterAxisSizingMode", "AUTO"),
     wrap |-> Get(n, "layoutWrap", "NO_WRAP")]

parse_layout_keeps_none(n) ==
    IF "layoutMode" \notin DOMAIN n \/ n["layoutMode"] = "" THEN None
    ELSE LayoutInfo(n, n["layoutMode"])

\* mode = node.get('layoutMode'); if not mode or mode == 'NONE': return None
parse_layout(n) ==
    IF "layoutMode" \notin DOMAIN n \/ n["layoutMode"] = ""
       \/ n["layoutMode"] = "NONE"
    THEN None
    ELSE LayoutInfo(n, n["layoutMode"])

\* the scan of parse_text_style for the text paint, from entry i on: the
\* value of (text_color, text_gradient) when the loop ends
RECURSIVE text_paint_last(_, _, _)
text_paint_last(fills, i, base) ==
    IF i > Len(fills) THEN [color |-> None, gradient |-> None]
    ELSE LET fill == fills[i]
             rest == text_paint_last(fills, i + 1, base)
         IN  IF ~Get(fill, "visible", TRUE) THEN rest
             ELSE IF "type" \in DOMAIN fill /\ fill["type"] = SOLID
             THEN IF rest.color # None THEN rest
                  ELSE [rest EXCEPT
                          !.color = from_figma(Get(fill, "color", EmptyDict),
                                               Get(fill, "opacity", 100))]
             ELSE IF Contains(Get(fill, "type", <<>>), GRADIENT)
             THEN IF rest.gradient # None THEN rest
                  ELSE [rest EXCEPT
                          !.gradient = gradient_def(fill, fill["type"],
                                                    base + 3 * i)]
             ELSE rest

RECURSIVE text_paint(_, _, _)
text_paint(fills, i, base) ==
    IF i > Len(fills) THEN [color |-> None, gradient |-> None]
    ELSE LET fill == fills[i]
         IN  IF ~Get(fill, "visible", TRUE)
             THEN text_paint(fills, i + 1, base)
             ELSE IF "type" \in DOMAIN fill /\ fill["type"] = SOLID
             THEN [color |-> from_figma(Get(fill, "color", EmptyDict),
                                        Get(fill, "opacity", 100)),
                   gradient |-> None]
             ELSE IF Contains(Get(fill, "type", <<>>), GRADIENT)
             THEN [color |-> None,
                   gradient |-> gradient_def(fill, fill["type"], base + 3 * i)]
             ELSE text_paint(fills, i + 1, base)

parse_text_style(n, base) ==
    LET style == Get(n, "style", EmptyDict)
        paint == text_paint(Get(n, "fills", <<>>), 1, base)
    IN  [font_family |-> Get(style, "fontFamily", ""),
         font_size |-> Get(style, "fontSize", 16),
         font_weight |-> Get(style, "fontWeight", 400),
         line_height |-> Get(style, "lineHeightPx", None),
         letter_spacing |-> Get(style, "letterSpacing", 0),
         text_align |-> Get(style, "textAlignHorizontal", "LEFT"),
         text_case |-> Get(style, "textCase", "ORIGINAL"),
         text_decoration |-> Get(style, "textDecoration", "NONE"),
         color |-> paint.color,
         gradient |-> paint.gradient,
         max_lines |-> Get(style, "maxLines", None),
         truncation |-> Get(style, "textTruncation", "DISABLED")]

parse_style_bundle(n, base) ==
    LET bbox == Get(n, "absoluteBoundingBox", EmptyDict)
        effects == parse_effects(n)
    IN  [fills |-> parse_fills(n, base),
         stroke |-> parse_stroke(n, base),
         corners |-> parse_corners(n),
         shadows |-> effects[1],
         blurs |-> effects[2],
         opacity |-> Get(n, "opacity", 100),
         blend_mode |-> Get(n, "blendMode", "PASS_THROUGH"),
         rotation |-> Get(n, "rotation", 0),
         layout |-> parse_layout(n),
         width |-> Get(bbox, "width", 0),
         height |-> Get(bbox, "height", 0),
         clips_content |-> Get(n, "clipsContent", FALSE)]

----------------------------------------------------------------------------
(* Bounds                                                                  *)

\* longest fills, strokes and effects list of an input node
MaxList == 2

\* longest input string of hex_to_rgb drawn from TextAlphabet
MaxTextLen == 6

\* concurrent callers
NumThreads == 2

\* how long a caller lets a list of a returned record grow
MaxGrow == 3

----------------------------------------------------------------------------
(* Input nodes                                                             *)

SeqsUpTo(S, n) == UNION {[1..k -> S] : k \in 0..n}

SomeColor == [r |-> 100, g |-> 50, b |-> 0]

SomeStops == <<[color |-> SomeColor, position |-> 0],
               [color |-> [b |-> 100, a |-> 50], position |-> 100]>>

\* a list of the input whose address is set by PlaceLists
Unplaced == Ref(0)

PaintPayloads ==
    {EmptyDict,
     [type |-> SOLID],
     [type |-> SOLID, color |-> SomeColor],
     [type |-> SOLID, color |-> SomeColor, opacity |-> 50],
     [type |-> GRADIENT_ \o LINEAR],
     [type |-> GRADIENT_ \o LINEAR, gradientStops |-> SomeStops,
      gradientHandlePositions |-> Unplaced, opacity |-> 50],
     [type |-> GRADIENT_ \o RADIAL, gradientHandlePositions |-> Unplaced],
     [type |-> GRADIENT_ \o ANGULAR, gradientStops |-> SomeStops],
     [type |-> GRADIENT_ \o DIAMOND, gradientHandlePositions |-> Unplaced],
     [type |-> IMAGE, imageRef |-> "img", scaleMode |-> "FIT"]}

FlaggedPayloads ==
    {[type |-> SOLID, color |-> SomeColor],
     [type |-> GRADIENT_ \o LINEAR, gradientStops |-> SomeStops,
      gradientHandlePositions |-> Unplaced, opacity |-> 50],
     [type |-> IMAGE, imageRef |-> "img", scaleMode |-> "FIT"]}

FillEntries ==
    PaintPayloads
    \cup {p @@ [visible |-> v] : p \in FlaggedPayloads, v \in BOOLEAN}

StrokeEntries ==
    {[type |-> SOLID, color |-> SomeColor],
     [type |-> SOLID, color |-> SomeColor, visible |-> FALSE],
     [type |-> GRADIENT_ \o LINEAR, gradientStops |-> SomeStops,
      gradientHandlePositions |-> Unplaced],
     [type |-> GRADIENT_ \o DIAMOND, visible |-> TRUE],
     [type |-> GRADIENT_ \o RADIAL, visible |-> FALSE]}

EffectEntries ==
    {[type |-> "DROP_SHADOW", radius |-> 4, offset |-> [x |-> 1, y |-> 2]],
     [type |-> "INNER_SHADOW", color |-> SomeColor, spread |-> 1],
     [type |-> "DROP_SHADOW", visible |-> FALSE],
     [type |-> "LAYER_BLUR", radius |-> 8],
     [type |-> "BACKGROUND_BLUR", visible |-> FALSE]}

\* the gradientHandlePositions list of entry i gets the address i * 3 + kind
PlaceLists(entries, kind) ==
    [i \in 1..Len(entries) |->
        IF "gradientHandlePositions" \in DOMAIN entries[i]
        THEN [entries[i] EXCEPT !["gradientHandlePositions"] = Ref(3 * i + kind)]
        ELSE entries[i]]

Optional(key, values) == {EmptyDict} \cup {key :> v : v \in values}

FillNodes ==
    {f @@ st : f \in Optional("fills", {PlaceLists(fs, 0) :
                                          fs \in SeqsUpTo(FillEntries, MaxList)}),
               st \in {EmptyDict}}

TextNodes ==
    {f @@ [style |-> st] :
        f \in Optional("fills", {PlaceLists(fs, 0) :
                                   fs \in SeqsUpTo(FlaggedPayloads, MaxList)}),
        st \in {EmptyDict, [fontFamily |-> "Inter", fontSize |-> 14,
                            lineHeightPx |-> 20, maxLines |-> 2]}}

StrokeExtras ==
    {EmptyDict,
     [strokeDashes |-> Ref(2), strokeAlign |-> "CENTER"],
     [individualStrokeWeights |-> [top |-> 1, left |-> 2]],
     [individualStrokeWeights |-> EmptyDict, strokeCap |-> "ROUND"]}

StrokeNodes ==
    {s @@ w @@ x :
        s \in Optional("strokes", {PlaceLists(ss, 1) :
                                     ss \in SeqsUpTo(StrokeEntries, MaxList)}),
        w \in Optional("strokeWeight", {0, 2}),
        x \in StrokeExtras}

CornerNodes ==
    {r @@ c :
        r \in Optional("rectangleCornerRadii",
                       UNION {[1..k -> {0, 8}] : k \in {0, 3, 4, 5}}),
        c \in Optional("cornerRadius", {0, 4})}

LayoutNodes ==
    {m @@ g @@ x :
        m \in Optional("layoutMode", {"NONE", "HORIZONTAL", "VERTICAL", "GRID"}),
        g \in Optional("itemSpacing", {0, 12}),
        x \in {EmptyDict, [paddingTop |-> 4, layoutWrap |-> "WRAP"]}}

EffectNodes ==
    Optional("effects", SeqsUpTo(EffectEntries, MaxList))

\* nodes that carry every aspect at once
FullNodes ==
    {f @@ s @@ c @@ l @@ [opacity |-> 50,
                           absoluteBoundingBox |-> [width |-> 10]] :
        f \in {n \in FillNodes : Len(Get(n, "fills", <<>>)) = 1},
        s \in {[strokes |-> PlaceLists(<<e>>, 1), strokeWeight |-> 2] :
                 e \in StrokeEntries},
        c \in {EmptyDict, [cornerRadius |-> 4]},
        l \in Optional("layoutMode", {"NONE", "VERTICAL"})}

Nodes ==
    FillNodes \cup TextNodes \cup StrokeNodes \cup CornerNodes
    \cup LayoutNodes \cup EffectNodes \cup FullNodes

\* the addresses of the lists an input node holds
NodeRefs(n) ==
    {e["gradientHandlePositions"].ref :
        e \in {x \in {Get(n, "fills", <<>>)[i] :
                        i \in 1..Len(Get(n, "fills", <<>>))}
                     \cup {Get(n, "strokes", <<>>)[i] :
                             i \in 1..Len(Get(n, "strokes", <<>>))} :
                 "gradientHandlePositions" \in DOMAIN x}}
    \cup (IF "strokeDashes" \in DOMAIN n THEN {n["strokeDashes"].ref} ELSE {})

\* what the lists of an input node hold: dash lengths at the address of
\* strokeDashes, handle positions elsewhere
InitList(a) ==
    IF a = 2 THEN <<4, 2>>
    ELSE <<[x |-> 0, y |-> 0], [x |-> 100, y |-> 100]>>

InitHeap(n) == [a \in NodeRefs(n) |-> InitList(a)]

----------------------------------------------------------------------------
(* Input strings and colours of the conversion helpers                     *)

TextAlphabet == {"#", "a", "g", " "}

ExtraTexts ==
    {<<"#", "A", "B", "C", "D", "E", "F">>,
     <<"#", "1", "a", "2", "b", "3", "c", "4", "d">>,
     <<"-", "a", "-", "b", "-", "c">>,
     <<"r", "g", "b", "a">>,
     <<"r", "g", "b", "a", "(", "1", ",", "2", ")">>,
     <<"r", "g", "b", "a", "(", "1", ".", "5", ",", "2", ",", "3", ")">>,
     <<"r", "g", "b", "a", "(", "1", "0", ",", " ", "2", "0", ",", " ",
       "3", "0", ",", " ", "0", ".", "4", ")">>,
     <<" ", "r", "g", "b", "a", "(", "1", ",", "2", ",", "3", ")", " ">>,
     <<"r", "g", "b", "(", "1", ",", "2", ",", "3", ")">>}

Texts == SeqsUpTo(TextAlphabet, MaxTextLen) \cup ExtraTexts

Channels == 0..255

SampleChannels == {0, 9, 171, 255}

Triples ==
    (Channels \X SampleChannels \X SampleChannels)
    \cup (SampleChannels \X Channels \X SampleChannels)
    \cup (SampleChannels \X SampleChannels \X Channels)

\* the scaled channels of the colour dicts handed to rgba_to_hex
ColorInputs ==
    {[r |-> t[1], g |-> t[2], b |-> t[3]] : t \in Triples}
    \cup {[r |-> t[1], g |-> t[2], b |-> t[3], a |-> al] :
            t \in SampleChannels \X SampleChannels \X SampleChannels,
            al \in {0, 5, 50, 99, 100}}
    \cup {EmptyDict, [g |-> 9], [b |-> 171, a |-> 50]}

----------------------------------------------------------------------------
(* Calls                                                                   *)
(*                                                                         *)
(* calls[t] is what caller t holds: nothing yet (Idle), or the operation   *)
(* it ran, the value that returned, and in lists the contents, at the      *)
(* return, of the lists the value refers to.                               *)

Idle == [op |-> "idle"]

AddrSpan == 3 * (MaxList + 1)

Base(t) == t * AddrSpan

LayerRefs(layers) ==
    {layers[i].gradient.handle_positions.ref :
        i \in {j \in 1..Len(layers) : layers[j].gradient # None}}

StrokeRefs(stroke) ==
    IF stroke = None THEN {}
    ELSE LayerRefs(stroke.colors) \cup {stroke.dashes.ref}

ValRefs(op, val) ==
    CASE op = "parse_fills" -> LayerRefs(val)
      [] op = "parse_stroke" -> StrokeRefs(val)
      [] op = "parse_text_style" ->
            IF val.gradient # None THEN {val.gradient.handle_positions.ref}
            ELSE {}
      [] op = "parse_style_bundle" ->
            LayerRefs(val.fills) \cup StrokeRefs(val.stroke)
      [] OTHER -> {}

\* the heap once the lists the call created exist
Alloc(h, refs) ==
    [a \in DOMAIN h \cup refs |-> IF a \in DOMAIN h THEN h[a] ELSE <<>>]

Return(t, op, val) ==
    LET refs == ValRefs(op, val)
        h == Alloc(heap, refs)
    IN  /\ heap' = h
        /\ calls' = [calls EXCEPT ![t] =
                        [op |-> op, val |-> val,
                         lists |-> [a \in refs |-> h[a]]]]

Threads == DOMAIN calls

CallParseFills(t) ==
    /\ calls[t] = Idle
    /\ Return(t, "parse_fills", parse_fills(node, Base(t)))
    /\ UNCHANGED <<node, rgba, text>>

CallParseStroke(t) ==
    /\ calls[t] = Idle
    /\ Return(t, "parse_stroke", parse_stroke(node, Base(t)))
    /\ UNCHANGED <<node, rgba, text>>

CallParseCorners(t) ==
    /\ calls[t] = Idle
    /\ Return(t, "parse_corners", parse_corners(node))
    /\ UNCHANGED <<node, rgba, text>>

CallParseEffects(t) ==
    /\ calls[t] = Idle
    /\ Return(t, "parse_effects", parse_effects(node))
    /\ UNCHANGED <<node, rgba, text>>

CallParseLayout(t) ==
    /\ calls[t] = Idle
    /\ Return(t, "parse_layout", parse_layout(node))
    /\ UNCHANGED <<node, rgba, text>>

CallParseTextStyle(t) ==
    /\ calls[t] = Idle
    /\ Return(t, "parse_text_style", parse_text_style(node, Base(t)))
    /\ UNCHANGED <<node, rgba, text>>

CallParseStyleBundle(t) ==
    /\ calls[t] = Idle
    /\ Return(t, "parse_style_bundle", parse_style_bundle(node, Base(t)))
    /\ UNCHANGED <<node, rgba, text>>

\* the caller owns what a call returned: it appends to a list of the record
Mutate(t) ==
    /\ calls[t] # Idle
    /\ \E a \in DOMAIN calls[t].lists :
          /\ Len(heap[a]) < MaxGrow
          /\ heap' = [heap EXCEPT ![a] = Append(@, InitList(a)[1])]
    /\ UNCHANGED <<node, rgba, text, calls>>

\* rgba_to_hex on the colour; the caller keeps the string in text
CallRgbaToHex(t) ==
    /\ calls[t] = Idle
    /\ rgba # None
    /\ text' = rgba_to_hex(rgba)
    /\ calls' = [calls EXCEPT ![t] =
                    [op |-> "rgba_to_hex", val |-> rgba_to_hex(rgba)]]
    /\ UNCHANGED <<node, rgba, heap>>

\* hex_to_rgb on text: an input string, or the string rgba_to_hex returned
CallHexToRgb(t) ==
    /\ \/ calls[t] = Idle /\ rgba = None
       \/ calls[t].op = "rgba_to_hex"
    /\ calls' = [calls EXCEPT ![t] =
                    [op |-> "hex_to_rgb", val |-> hex_to_rgb(text),
                     formatted |-> calls[t].op = "rgba_to_hex"]]
    /\ UNCHANGED <<node, rgba, text, heap>>

\* tests/test_generators.py
test_web_child_limit_is_20(t) ==
    /\ calls[t] = Idle
    /\ calls' = [calls EXCEPT ![t] =
                    [op |-> "test_web_child_limit_is_20",
                     val |-> IF MAX_CHILDREN_LIMIT = 20
                             THEN "passed" ELSE "failed"]]
    /\ UNCHANGED <<node, rgba, text, heap>>

test_native_child_limit_is_15(t) ==
    /\ calls[t] = Idle
    /\ calls' = [calls EXCEPT ![t] =
                    [op |-> "test_native_child_limit_is_15",
                     val |-> IF MAX_NATIVE_CHILDREN_LIMIT = 15
                             THEN "passed" ELSE "failed"]]
    /\ UNCHANGED <<node, rgba, text, heap>>

----------------------------------------------------------------------------
(* Specifications                                                          *)

\* one parse call on any input node
InitParse ==
    /\ node \in Nodes
    /\ heap = InitHeap(node)
    /\ rgba = None
    /\ text = <<>>
    /\ calls = [t \in {1} |-> Idle]

NextParse ==
    \/ \E t \in Threads : CallParseFills(t)
    \/ \E t \in Threads : CallParseStroke(t)
    \/ \E t \in Threads : CallParseCorners(t)
    \/ \E t \in Threads : CallParseEffects(t)
    \/ \E t \in Threads : CallParseLayout(t)
    \/ \E t \in Threads : CallParseTextStyle(t)
    \/ \E t \in Threads : CallParseStyleBundle(t)

SpecParse == InitParse /\ [][NextParse]_vars

\* the conversion helpers on a string or on a colour, and the test suite
InitColor ==
    /\ node = EmptyDict
    /\ heap = InitHeap(node)
    /\ \/ text \in Texts /\ rgba = None
       \/ text = <<>> /\ rgba \in ColorInputs
    /\ calls = [t \in {1} |-> Idle]

NextColor ==
    \/ \E t \in Threads : CallRgbaToHex(t)
    \/ \E t \in Threads : CallHexToRgb(t)
    \/ \E t \in Threads : test_web_child_limit_is_20(t)
    \/ \E t \in Threads : test_native_child_limit_is_15(t)

SpecColor == InitColor /\ [][NextColor]_vars

\* callers that parse the same node in any interleaving and then use what
\* they were handed
ConcNodes ==
    {n \in FullNodes :
        /\ "cornerRadius" \in DOMAIN n
        /\ Get(n, "layoutMode", "") = "VERTICAL"
        /\ n["fills"][1] \in {PlaceLists(<<p>>, 0)[1] : p \in FlaggedPayloads}}
    \cup {n \in StrokeNodes :
            /\ Get(n, "strokeWeight", 0) = 2
            /\ Len(Get(n, "strokes", <<>>)) = 1
            /\ "strokeDashes" \in DOMAIN n}

InitConc ==
    /\ node \in ConcNodes
    /\ heap = InitHeap(node)
    /\ rgba = None
    /\ text = <<>>
    /\ calls = [t \in 1..NumThreads |-> Idle]

NextConc ==
    \/ \E t \in Threads : CallParseFills(t)
    \/ \E t \in Threads : CallParseStroke(t)
    \/ \E t \in Threads : CallParseCorners(t)
    \/ \E t \in Threads : CallParseEffects(t)
    \/ \E t \in Threads : CallParseLayout(t)
    \/ \E t \in Threads : CallParseTextStyle(t)
    \/ \E t \in Threads : CallParseStyleBundle(t)
    \/ \E t \in Threads : Mutate(t)

SpecConc == InitConc /\ [][NextConc]_vars

----------------------------------------------------------------------------
(* Properties                                                              *)

\* the entries of a list that are not explicitly invisible, in input order
ExplicitlyInvisible(e) == "visible" \in DOMAIN e /\ e["visible"] = FALSE

RECURSIVE NotInvisible(_)
NotInvisible(entries) ==
    IF entries = <<>> THEN <<>>
    ELSE IF ExplicitlyInvisible(Head(entries)) THEN NotInvisible(Tail(entries))
    ELSE <<Head(entries)>> \o NotInvisible(Tail(entries))

Called(t, op) == calls[t] # Idle /\ calls[t].op = op

\* C1: parse_stroke returns None when strokes is missing or empty, when
\* strokeWeight is missing or 0, and when every stroke entry is explicitly
\* invisible; otherwise a StrokeInfo with the node's weight and one layer,
\* in input order, per entry that is not explicitly invisible (so its
\* colors are never empty).
C1_StrokeAbsentOrNonEmpty ==
    \A t \in Threads : Called(t, "parse_stroke") =>
        LET strokes == Get(node, "strokes", <<>>)
            weight == Get(node, "strokeWeight", 0)
            kept == NotInvisible(strokes)
            val == calls[t].val
        IN  IF strokes = <<>> \/ weight = 0 \/ kept = <<>>
            THEN val = None
            ELSE /\ val # None
                 /\ val.weight = weight
                 /\ val.colors # <<>>
                 /\ Len(val.colors) = Len(kept)
                 /\ \A k \in 1..Len(kept) :
                       /\ val.colors[k].type = Get(kept[k], "type", <<>>)
                       /\ val.colors[k].opacity = Get(kept[k], "opacity", 100)

\* a StrokeInfo came back for a node one of whose two strokes is invisible
C1_Witness ==
    \E t \in Threads :
        /\ Called(t, "parse_stroke")
        /\ calls[t].val # None
        /\ Len(node["strokes"]) = 2
        /\ Len(calls[t].val.colors) = 1
        /\ ExplicitlyInvisible(node["strokes"][1])

\* C4: parse_fills returns one FillLayer, with visible = true, per entry of
\* fills that is not explicitly invisible, in input order, and nothing for
\* an entry with visible: false.
C4_FillsKeepExactlyTheVisible ==
    \A t \in Threads : Called(t, "parse_fills") =>
        LET kept == NotInvisible(Get(node, "fills", <<>>))
            val == calls[t].val
        IN  /\ Len(val) = Len(kept)
            /\ \A k \in 1..Len(kept) :
                  /\ val[k].visible = TRUE
                  /\ val[k].type = Get(kept[k], "type", <<>>)
                  /\ val[k].opacity = Get(kept[k], "opacity", 100)

\* two fills, the second invisible: one layer, the first one's
C4_Witness ==
    \E t \in Threads :
        /\ Called(t, "parse_fills")
        /\ Len(Get(node, "fills", <<>>)) = 2
        /\ ExplicitlyInvisible(node["fills"][2])
        /\ ~ExplicitlyInvisible(node["fills"][1])
        /\ Len(calls[t].val) = 1

\* the Gradient of a layer whose entry had one of the four gradient types
\* carries that type without the prefix
PrefixStripped(layer) ==
    layer.type \in GradientTypes =>
        /\ layer.gradient # None
        /\ layer.gradient.type \in {LINEAR, RADIAL, ANGULAR, DIAMOND}
        /\ GRADIENT_ \o layer.gradient.type = layer.type

\* the first visible entry of fills with a SOLID or gradient type, 0 if none
FirstPaint(fills) ==
    LET paints == {i \in 1..Len(fills) :
                     /\ Get(fills[i], "visible", TRUE)
                     /\ \/ Get(fills[i], "type", <<>>) = SOLID
                        \/ Contains(Get(fills[i], "type", <<>>), GRADIENT)}
    IN  IF paints = {} THEN 0
        ELSE CHOOSE i \in paints : \A j \in paints : i <= j

\* C5: for an entry of type GRADIENT_LINEAR, GRADIENT_RADIAL,
\* GRADIENT_ANGULAR or GRADIENT_DIAMOND the type stored on the Gradient by
\* parse_fills, parse_stroke and parse_text_style is LINEAR, RADIAL, ANGULAR
\* or DIAMOND respectively, never with the GRADIENT_ prefix.
C5_GradientTypeHasNoPrefix ==
    \A t \in Threads :
        /\ Called(t, "parse_fills") =>
              \A k \in 1..Len(calls[t].val) : PrefixStripped(calls[t].val[k])
        /\ (Called(t, "parse_stroke") /\ calls[t].val # None) =>
              \A k \in 1..Len(calls[t].val.colors) :
                  PrefixStripped(calls[t].val.colors[k])
        /\ (Called(t, "parse_text_style") /\ calls[t].val.gradient # None) =>
              LET fills == Get(node, "fills", <<>>)
                  g == calls[t].val.gradient
              IN  fills[FirstPaint(fills)]["type"] \in GradientTypes =>
                      /\ g.type \in {LINEAR, RADIAL, ANGULAR, DIAMOND}
                      /\ GRADIENT_ \o g.type = fills[FirstPaint(fills)]["type"]

\* parse_fills returned a layer for a GRADIENT_ANGULAR entry
C5_Witness ==
    \E t \in Threads :
        /\ Called(t, "parse_fills")
        /\ \E k \in 1..Len(calls[t].val) :
              /\ calls[t].val[k].type = GRADIENT_ \o ANGULAR
              /\ calls[t].val[k].gradient.type = ANGULAR

\* C6: parse_corners maps a 4-element rectangleCornerRadii, whatever its
\* values and whatever cornerRadius is, to top_left, top_right,
\* bottom_right, bottom_left in order; otherwise a cornerRadius greater
\* than 0 gives four equal corners; otherwise the result is None.
C6_CornersPreferRectangleRadii ==
    \A t \in Threads : Called(t, "parse_corners") =>
        LET val == calls[t].val
        IN  IF "rectangleCornerRadii" \in DOMAIN node
               /\ Len(node["rectangleCornerRadii"]) = 4
            THEN /\ val # None
                 /\ val.top_left = node["rectangleCornerRadii"][1]
                 /\ val.top_right = node["rectangleCornerRadii"][2]
                 /\ val.bottom_right = node["rectangleCornerRadii"][3]
                 /\ val.bottom_left = node["rectangleCornerRadii"][4]
            ELSE IF "cornerRadius" \in DOMAIN node /\ node["cornerRadius"] > 0
            THEN /\ val # None
                 /\ val.top_left = node["cornerRadius"]
                 /\ val.top_right = node["cornerRadius"]
                 /\ val.bottom_right = node["cornerRadius"]
                 /\ val.bottom_left = node["cornerRadius"]
            ELSE val = None

\* four radii that are not all equal, beside a positive cornerRadius
C6_Witness ==
    \E t \in Threads :
        /\ Called(t, "parse_corners")
        /\ "cornerRadius" \in DOMAIN node /\ node["cornerRadius"] > 0
        /\ "rectangleCornerRadii" \in DOMAIN node
        /\ node["rectangleCornerRadii"] = <<0, 8, 0, 0>>
        /\ calls[t].val # None
        /\ calls[t].val.top_right = 8
        /\ calls[t].val.top_left = 0

LayoutAsClaimed(layout) ==
    IF "layoutMode" \notin DOMAIN node \/ node["layoutMode"] = "NONE"
    THEN layout = None
    ELSE /\ layout # None
         /\ layout.mode = node["layoutMode"]
         /\ layout.gap = Get(node, "itemSpacing", 0)

\* C8: parse_layout returns None when layoutMode is missing or "NONE" and
\* otherwise a LayoutInfo with the node's layoutMode as mode and itemSpacing
\* (0 when missing) as gap; so the layout of a StyleBundle is None or has a
\* mode other than NONE.
C8_LayoutNeverNone ==
    \A t \in Threads :
        /\ Called(t, "parse_layout") => LayoutAsClaimed(calls[t].val)
        /\ Called(t, "parse_style_bundle") =>
              /\ LayoutAsClaimed(calls[t].val.layout)
              /\ \/ calls[t].val.layout = None
                 \/ calls[t].val.layout.mode # "NONE"

\* layoutMode NONE with an itemSpacing: no LayoutInfo
C8_Witness ==
    \E t \in Threads :
        /\ Called(t, "parse_layout")
        /\ "layoutMode" \in DOMAIN node /\ node["layoutMode"] = "NONE"
        /\ "itemSpacing" \in DOMAIN node
        /\ calls[t].val = None

\* the first visible entry of fills, 0 if none
FirstVisible(fills) ==
    LET shown == {i \in 1..Len(fills) : Get(fills[i], "visible", TRUE)}
    IN  IF shown = {} THEN 0
        ELSE CHOOSE i \in shown : \A j \in shown : i <= j

\* color and gradient of a TextStyle are those of the entry fill
PaintOf(val, fill) ==
    IF Get(fill, "type", <<>>) = SOLID
    THEN /\ val.color = from_figma(Get(fill, "color", EmptyDict),
                                   Get(fill, "opacity", 100))
         /\ val.gradient = None
    ELSE IF Contains(Get(fill, "type", <<>>), GRADIENT)
    THEN /\ val.color = None
         /\ val.gradient # None
         /\ val.gradient.stops = gradient_stops(fill)
         /\ val.gradient.opacity = Get(fill, "opacity", 100)
    ELSE val.color = None /\ val.gradient = None

\* C9 as stated: parse_text_style takes the text paint from the first
\* visible entry of fills only, and no later fill influences color or
\* gradient.
C9_PaintFromFirstVisibleFill ==
    \A t \in Threads : Called(t, "parse_text_style") =>
        LET fills == Get(node, "fills", <<>>)
            val == calls[t].val
        IN  IF FirstVisible(fills) = 0
            THEN val.color = None /\ val.gradient = None
            ELSE PaintOf(val, fills[FirstVisible(fills)])

\* C9 amended: parse_text_style takes the text paint from the first visible
\* entry of fills whose type is SOLID or a gradient type, skipping visible
\* entries of any other type: SOLID sets color and leaves gradient absent, a
\* gradient type sets gradient and leaves color absent, no fill after that
\* entry influences either, and at most one of the two is populated.
C9_PaintFromFirstVisiblePaint ==
    \A t \in Threads : Called(t, "parse_text_style") =>
        LET fills == Get(node, "fills", <<>>)
            val == calls[t].val
        IN  /\ val.color = None \/ val.gradient = None
            /\ IF FirstPaint(fills) = 0
               THEN val.color = None /\ val.gradient = None
               ELSE PaintOf(val, fills[FirstPaint(fills)])

\* a visible IMAGE fill first, then a SOLID and a gradient: the text takes
\* the colour of the SOLID fill and no gradient
C9_Witness ==
    \E t \in Threads :
        /\ Called(t, "parse_text_style")
        /\ Len(Get(node, "fills", <<>>)) = 2
        /\ FirstVisible(node["fills"]) = 1
        /\ Get(node["fills"][1], "type", <<>>) = IMAGE
        /\ FirstPaint(node["fills"]) = 2
        /\ calls[t].val.color # None
        /\ calls[t].val.gradient = None

\* C3: hex_to_rgb applied to the #rrggbb string that rgba_to_hex formats
\* from the 8-bit channels (r, g, b) of an opaque colour returns (r, g, b).
C3_HexRoundTrip ==
    \A t \in Threads :
        (Called(t, "hex_to_rgb") /\ calls[t].formatted
         /\ Get(rgba, "a", 100) >= 100) =>
            /\ Len(text) = 7 /\ Head(text) = "#"
            /\ calls[t].val = Returns(<<Get(rgba, "r", 0), Get(rgba, "g", 0),
                                        Get(rgba, "b", 0)>>)

\* (9, 171, 255) went through "#09abff" and came back
C3_Witness ==
    \E t \in Threads :
        /\ Called(t, "hex_to_rgb") /\ calls[t].formatted
        /\ rgba = [r |-> 9, g |-> 171, b |-> 255]
        /\ text = <<"#", "0", "9", "a", "b", "f", "f">>
        /\ calls[t].val = Returns(<<9, 171, 255>>)

\* the inputs C2 calls well formed: an rgba( form with three numeric
\* fields, a 3-character hex code, at least 6 hex digits after the #
AllHex(s) == \A i \in 1..Len(s) : IsDigit(s[i], 16)

WellFormed(s) ==
    LET h == LStrip(Strip(s), {"#"})
        fields == Split(Replace(Replace(Strip(s),
                                        <<"r", "g", "b", "a", "(">>, <<>>),
                                <<")">>, <<>>), ",")
    IN  \/ /\ StartsWith(Strip(s), <<"r", "g", "b", "a", "(">>)
           /\ Len(fields) >= 3
           /\ \A i \in 1..3 : IntParses(fields[i], 10)
        \/ Len(h) = 3 /\ AllHex(h)
        \/ Len(h) >= 6 /\ AllHex(SubSeq(h, 1, 6))

\* C2: hex_to_rgb never raises: every string that is not well formed
\* yields (0, 0, 0) as a normal return value.
C2_HexToRgbNeverRaises ==
    \A t \in Threads : Called(t, "hex_to_rgb") =>
        /\ calls[t].val.kind = "return"
        /\ ~WellFormed(text) => calls[t].val = Returns(<<0, 0, 0>>)

\* C7: the constants have the values the test suite asserts,
\* MAX_CHILDREN_LIMIT = 20 and MAX_NATIVE_CHILDREN_LIMIT = 15, so both
\* tests pass.
C7_ChildLimitsAsTested ==
    \A t \in Threads :
        (calls[t] # Idle /\ calls[t].op \in {"test_web_child_limit_is_20",
                                            "test_native_child_limit_is_15"})
            => calls[t].val = "passed"

\* the contents the lists of a returned value have when the call runs alone
AloneLists(refs) ==
    [a \in refs |-> IF a \in NodeRefs(node) THEN InitList(a) ELSE <<>>]

\* C10: in any interleaving of parse calls the input node is left
\* unchanged, each call returns what it returns when run alone, and the
\* records returned share no list with the input node or with the records
\* of another call (handle positions and dashes included).
C10_CallsShareNothing ==
    /\ \A a \in NodeRefs(node) : heap[a] = InitList(a)
    /\ \A t \in Threads : calls[t] # Idle =>
          /\ calls[t].lists = AloneLists(DOMAIN calls[t].lists)
          /\ DOMAIN calls[t].lists \cap NodeRefs(node) = {}
          /\ \A u \in Threads \ {t} : calls[u] # Idle =>
                DOMAIN calls[t].lists \cap DOMAIN calls[u].lists = {}

====
